---- MODULE Spec2Model ----
(***************************************************************************)
(* follower-maze: the network server (package net), its client registry,  *)
(* follower graph, event-source registration and the resequencing drain   *)
(* loop readSource, with the per-kind Dispatch methods of serverlib.       *)
(*                                                                         *)
(* Goroutines are modelled as processes with a position: one               *)
(* RegisterClient call per accepted client connection, one                 *)
(* RegisterEventSource call per accepted source connection, one readSource *)
(* loop per source that was started.  A step of a goroutine is atomic up   *)
(* to its next access of shared state that another goroutine can change    *)
(* (the registry map, the follower map, ns.source).                        *)
(***************************************************************************)
EXTENDS Integers, Sequences, FiniteSets

\* ---- bounds of the model ------------------------------------------------
NumUsers == 2
NumConns == 2
NumSources == 2
MaxSeq == 3
MaxFeed == 3
MaxFields == 5

\* ---- program constants --------------------------------------------------
UserIdInvalid == -1
FirstSeq == 1
ZeroUserId == 0

Users == 1..NumUsers
Conns == 1..NumConns
Sources == 1..NumSources
SeqIds == 1..MaxSeq

NoConn == 0
NoSource == 0

\* A Message value; Nil stands for the nil interface value.
Nil == [seq |-> 0, kind |-> "nil", from |-> ZeroUserId, to |-> ZeroUserId]

NewFollow(s, f, t) == [seq |-> s, kind |-> "F", from |-> f, to |-> t]
NewUnfollow(s, f, t) == [seq |-> s, kind |-> "U", from |-> f, to |-> t]
NewBroadcast(s) == [seq |-> s, kind |-> "B", from |-> ZeroUserId, to |-> ZeroUserId]
NewStatusUpdate(s, f) == [seq |-> s, kind |-> "S", from |-> f, to |-> ZeroUserId]
NewPrivateMessage(s, f, t) == [seq |-> s, kind |-> "P", from |-> f, to |-> t]

Id(m) == m.seq

\* The well-formed records a feed can carry with sequence numbers in S.
Broadcasts(S) == {NewBroadcast(s) : s \in S}
StatusUpdates(S) == {NewStatusUpdate(s, f) : s \in S, f \in Users}
Follows(S) == {NewFollow(s, f, t) : s \in S, f \in Users, t \in Users}
Unfollows(S) == {NewUnfollow(s, f, t) : s \in S, f \in Users, t \in Users}
PrivateMessages(S) == {NewPrivateMessage(s, f, t) : s \in S, f \in Users, t \in Users}
Messages(S) == Broadcasts(S) \cup StatusUpdates(S) \cup Follows(S)
                 \cup Unfollows(S) \cup PrivateMessages(S)

\* ---- wire format -------------------------------------------------------
\* A line is the sequence of its fields, as strings.Split(msgStr, "|")
\* yields them (at least one field); NoLine stands for no line.
NoLine == <<>>

\* The fields the lines are made of.
Tokens == {"1", "-1", "x", "F", "U", "B", "S", "P", "Q"}

Lines == UNION {[1..n -> Tokens] : n \in 1..MaxFields}

\* The value strconv reads from a field that is a decimal number.
IsNumeral(data) == data \in {"1", "-1"}
Numeral(data) == CASE data = "1" -> 1 [] data = "-1" -> (0 - 1) [] OTHER -> 0

\* strconv.ParseInt: any decimal number.
ParseUserId(data) ==
    IF IsNumeral(data) THEN [val |-> Numeral(data), err |-> FALSE]
    ELSE [val |-> UserIdInvalid, err |-> TRUE]

\* strconv.ParseUint: a decimal number without a sign.
ParseSeqId(data) ==
    IF IsNumeral(data) /\ Numeral(data) >= 0 THEN [val |-> Numeral(data), err |-> FALSE]
    ELSE [val |-> 0, err |-> TRUE]

\* The keys of msgTypeMap.
msgTypes == {"F", "U", "B", "S", "P"}

\* What a decoder returns: (nil, err) or (msg, nil).
Failed == [msg |-> Nil, err |-> TRUE]
Decoded(m) == [msg |-> m, err |-> FALSE]

\* Mutant of NewMessage: the number of arguments is not checked, missing
\* ones are left zero.
NewMessageLoose(seqNo, msgType, args) ==
    LET arg(i) == IF i <= Len(args) THEN args[i] ELSE ZeroUserId IN
    CASE msgType = "F" -> Decoded(NewFollow(seqNo, arg(1), arg(2)))
      [] msgType = "U" -> Decoded(NewUnfollow(seqNo, arg(1), arg(2)))
      [] msgType = "B" -> Decoded(NewBroadcast(seqNo))
      [] msgType = "S" -> Decoded(NewStatusUpdate(seqNo, arg(1)))
      [] msgType = "P" -> Decoded(NewPrivateMessage(seqNo, arg(1), arg(2)))
      [] OTHER -> Failed

\* NewMessage with the constructor it finds in msgTypeMap; each constructor
\* checks len(args).
NewMessage(seqNo, msgType, args) ==
    IF msgType \notin msgTypes THEN Failed
    ELSE CASE msgType = "F" ->
                IF Len(args) # 2 THEN Failed
                ELSE Decoded(NewFollow(seqNo, args[1], args[2]))
           [] msgType = "U" ->
                IF Len(args) # 2 THEN Failed
                ELSE Decoded(NewUnfollow(seqNo, args[1], args[2]))
           [] msgType = "B" ->
                IF Len(args) # 0 THEN Failed
                ELSE Decoded(NewBroadcast(seqNo))
           [] msgType = "S" ->
                IF Len(args) # 1 THEN Failed
                ELSE Decoded(NewStatusUpdate(seqNo, args[1]))
           [] msgType = "P" ->
                IF Len(args) # 2 THEN Failed
                ELSE Decoded(NewPrivateMessage(seqNo, args[1], args[2]))

ParseMessage(parts) ==
    IF Len(parts) < 2 THEN Failed
    ELSE LET seq == ParseSeqId(parts[1]) IN
         IF seq.err THEN Failed
         ELSE LET n == Len(parts) - 2
                  argv == [i \in 1..n |-> ParseUserId(parts[i + 2])]
              IN  IF \E i \in 1..n : argv[i].err THEN Failed
                  ELSE NewMessage(seq.val, parts[2], [i \in 1..n |-> argv[i].val])

VARIABLES
    clients,     \* ns.clients: user id -> client connection
    clientMux,   \* ns.clientMux is held
    source,      \* ns.source
    followers,   \* ns.followers: followee -> set of followers
    userid,      \* NetClient.userid of each client connection
    cstate,      \* position/result of the RegisterClient call of a connection;
                 \* "unregistered" once UnregisterClient of it has returned
    rstate,      \* position/result of the RegisterEventSource call of a source;
                 \* "unregistered" once UnregisterEventSource of it returned true
    lpc,         \* position of the readSource goroutine of a source
    current,     \* readSource: current
    cache,       \* readSource: cache
    dmsg,        \* readSource: the message whose Dispatch is running
    derr,        \* readSource: err of the WaitMessage call being processed
    incache,     \* readSource: dmsg was taken from cache (inner loop)
    seen,        \* range loop of the running Dispatch: keys produced
    todo,        \* range loop: keys present since it began, not yet produced
    detached,    \* range loop over a follower set that was pruned meanwhile
    arrived,     \* history: the results WaitMessage has returned, per source
    raced,       \* history: two RegisterEventSource calls were past the test at once
    regs,        \* history: the values of ns.clients during the running Dispatch
    dispatched,  \* history: messages whose Dispatch was called, per source
    written,     \* history: WriteMessage calls per client connection
    fault,       \* the runtime aborted on a concurrent map access
    line         \* the fields of the one line a source connection carries
                 \* when the feed is given as text; NoLine otherwise

vars == <<clients, clientMux, source, followers, userid, cstate, rstate, lpc,
          current, cache, dmsg, derr, incache, seen, todo, detached,
          arrived, raced, regs, dispatched, written, fault, line>>

serverVars == <<clients, clientMux, source, followers>>
connVars == <<userid, cstate>>
loopVars == <<lpc, current, cache, dmsg, derr, incache, seen, todo, detached>>
histVars == <<arrived, raced, regs, dispatched, written>>
feedVars == <<arrived, raced>>
visitVars == <<arrived, raced, regs>>

EmptyMap == [k \in {} |-> 0]

\* NewNetServer, and no connection accepted yet.
Started ==
    /\ clients = EmptyMap
    /\ clientMux = FALSE
    /\ source = NoSource
    /\ followers = EmptyMap
    /\ userid = [c \in Conns |-> ZeroUserId]
    /\ cstate = [c \in Conns |-> "new"]
    /\ rstate = [s \in Sources |-> "new"]
    /\ lpc = [s \in Sources |-> "none"]
    /\ current = [s \in Sources |-> FirstSeq]
    /\ cache = [s \in Sources |-> EmptyMap]
    /\ dmsg = [s \in Sources |-> Nil]
    /\ derr = [s \in Sources |-> "none"]
    /\ incache = [s \in Sources |-> FALSE]
    /\ seen = [s \in Sources |-> {}]
    /\ todo = [s \in Sources |-> {}]
    /\ detached = [s \in Sources |-> FALSE]
    /\ arrived = [s \in Sources |-> <<>>]
    /\ raced = FALSE
    /\ regs = [s \in Sources |-> {}]
    /\ dispatched = [s \in Sources |-> <<>>]
    /\ written = [c \in Conns |-> <<>>]
    /\ fault = FALSE

Init == Started /\ line = NoLine

\* ---- Go maps ------------------------------------------------------------
MapPut(m, k, v) == [x \in (DOMAIN m) \cup {k} |-> IF x = k THEN v ELSE m[x]]
MapDelete(m, k) == [x \in (DOMAIN m) \ {k} |-> m[x]]

\* ---- client registry ----------------------------------------------------
\* Mutant of RegisterClientStore: a second sink replaces the first.
RegisterClientReplace(reg, id, c) == MapPut(reg, id, c)

\* The registry after RegisterClient of connection c whose Init read id.
RegisterClientStore(reg, id, c) ==
    IF id \in DOMAIN reg THEN reg ELSE MapPut(reg, id, c)

\* The value RegisterClient returns.
RegisterClientResult(reg, id) == id \notin DOMAIN reg

\* clientMux after RegisterClient: the duplicate path returns without Unlock.
RegisterClientMux(reg, id) == id \in DOMAIN reg

\* Mutant of UnregisterClientDelete: the entry is left in the registry.
UnregisterClientKeep(reg, id) == reg

UnregisterClientDelete(reg, id) == MapDelete(reg, id)

\* Mutant of GetClient: a missing id yields some registered client.
GetClientAny(reg, id) ==
    IF id \in DOMAIN reg THEN reg[id]
    ELSE IF DOMAIN reg # {} THEN reg[CHOOSE k \in DOMAIN reg : TRUE]
    ELSE NoConn

GetClient(reg, id) == IF id \in DOMAIN reg THEN reg[id] ELSE NoConn

\* ---- follower graph -----------------------------------------------------
\* Mutant of AddFollower: followee and follower are exchanged.
AddFollowerSwapped(g, cid, uid) ==
    LET fset == IF uid \in DOMAIN g THEN g[uid] ELSE {}
    IN  MapPut(g, uid, fset \cup {cid})

AddFollower(g, cid, uid) ==
    LET fset == IF cid \in DOMAIN g THEN g[cid] ELSE {}
    IN  MapPut(g, cid, fset \cup {uid})

\* Mutant of RemoveFollower: followee and follower are exchanged.
RemoveFollowerSwapped(g, cid, uid) ==
    IF uid \notin DOMAIN g THEN g
    ELSE LET set == g[uid] \ {cid}
         IN  IF Cardinality(set) = 0 THEN MapDelete(g, uid)
             ELSE MapPut(g, uid, set)

\* Mutant of RemoveFollower: an emptied follower set keeps its key.
RemoveFollowerNoPrune(g, cid, uid) ==
    IF cid \notin DOMAIN g THEN g ELSE MapPut(g, cid, g[cid] \ {uid})

\* Mutant of RemoveFollower: the followee's whole set is deleted.
RemoveFollowerDropKey(g, cid, uid) == MapDelete(g, cid)

RemoveFollower(g, cid, uid) ==
    IF cid \notin DOMAIN g THEN g
    ELSE LET set == g[cid] \ {uid}
         IN  IF Cardinality(set) = 0 THEN MapDelete(g, cid)
             ELSE MapPut(g, cid, set)

\* nil (no key) is the empty set.
GetFollowers(g, uid) == IF uid \in DOMAIN g THEN g[uid] ELSE {}

\* ---- event source -------------------------------------------------------
\* Mutant of UnregisterEventSource: ns.source is left as it is.
UnregisterEventSourceKeep(src, es) == src

UnregisterEventSource(src, es) == IF src = es THEN NoSource ELSE src

\* NetSource.WaitMessage: parsed is what ParseMessage returned for the line
\* read (Nil when it returned an error), ioerr whether ReadString failed.
WaitMessage(parsed, ioerr) ==
    IF ioerr THEN [msg |-> parsed, err |-> "io"]
    ELSE IF parsed = Nil THEN [msg |-> Nil, err |-> "decode"]
    ELSE [msg |-> parsed, err |-> "none"]

\* ---- the range loops of Broadcast and StatusUpdate.Dispatch -------------
Iterating(s, k) == lpc[s] = "disp" /\ dmsg[s].kind = k

\* Keys the range loop of m's Dispatch has to produce when it begins.
RangeStart(m, reg, g) ==
    IF m.kind = "B" THEN DOMAIN reg
    ELSE IF m.kind = "S" THEN GetFollowers(g, m.from)
    ELSE {}

\* StatusUpdate.Dispatch returns at once when GetFollowers is nil.
RangeNil(m, g) == m.kind = "S" /\ m.from \notin DOMAIN g

Write(w, c, s, m) ==
    IF c = NoConn THEN w
    ELSE [w EXCEPT ![c] = Append(@, [src |-> s, msg |-> m])]

\* ---- RegisterClient / UnregisterClient ----------------------------------
\* The loops whose Dispatch is running see the registry become reg.
Observed(reg) ==
    [s \in Sources |-> IF lpc[s] = "disp" THEN regs[s] \cup {reg} ELSE regs[s]]

\* RegisterClient(c) where c.Init() reads id from the connection.  Init only
\* touches the connection; the check and the store happen under clientMux.
\* With the mutex held by somebody the call blocks.
RegisterClient(c, id) ==
    /\ ~fault
    /\ cstate[c] = "new"
    /\ ~clientMux
    /\ userid' = [userid EXCEPT ![c] = id]
    /\ clients' = RegisterClientStore(clients, id, c)
    /\ clientMux' = RegisterClientMux(clients, id)
    /\ cstate' = [cstate EXCEPT ![c] =
                    IF RegisterClientResult(clients, id) THEN "true" ELSE "false"]
    /\ regs' = Observed(clients')
    /\ UNCHANGED <<source, followers, rstate, loopVars, arrived, raced,
                   dispatched, written, fault, line>>

\* UnregisterClient(c), called once for a connection whose RegisterClient
\* returned.  A range loop over the registry no longer has to produce the
\* deleted key, and produces it anew if it is created again.
UnregisterClient(c) ==
    /\ ~fault
    /\ cstate[c] \in {"true", "false"}
    /\ ~clientMux
    /\ clients' = UnregisterClientDelete(clients, userid[c])
    /\ todo' = [s \in Sources |->
                  IF Iterating(s, "B") THEN todo[s] \ {userid[c]} ELSE todo[s]]
    /\ seen' = [s \in Sources |->
                  IF Iterating(s, "B") THEN seen[s] \ {userid[c]} ELSE seen[s]]
    /\ cstate' = [cstate EXCEPT ![c] = "unregistered"]
    /\ regs' = Observed(clients')
    /\ UNCHANGED <<clientMux, source, followers, userid, rstate, lpc, current,
                   cache, dmsg, derr, incache, detached, arrived, raced,
                   dispatched, written, fault, line>>

\* ---- RegisterEventSource ------------------------------------------------
\* The test of ns.source, which no lock protects.
RegisterEventSourceCheck(s) ==
    /\ ~fault
    /\ rstate[s] = "new"
    /\ rstate' = [rstate EXCEPT ![s] =
                    IF source # NoSource THEN "false" ELSE "checked"]
    /\ raced' = (raced \/ (source = NoSource /\ \E t \in Sources : rstate[t] = "checked"))
    /\ UNCHANGED <<serverVars, connVars, loopVars, arrived, regs, dispatched,
                   written, fault, line>>

\* ns.source = es; go ns.readSource(es); return true
RegisterEventSourceStore(s) ==
    /\ ~fault
    /\ rstate[s] = "checked"
    /\ source' = s
    /\ rstate' = [rstate EXCEPT ![s] = "true"]
    /\ lpc' = [lpc EXCEPT ![s] = "wait"]
    /\ UNCHANGED <<clients, clientMux, followers, connVars, current, cache, dmsg,
                   derr, incache, seen, todo, detached, histVars, fault, line>>

\* UnregisterEventSource(es) is called from outside the loop for the source
\* that is registered and returns true.  Nothing tells the readSource
\* goroutine of es: its position is as before.
UnregisterEventSourceCall(s) ==
    /\ ~fault
    /\ rstate[s] = "true"
    /\ source = s
    /\ source' = UnregisterEventSource(source, s)
    /\ rstate' = [rstate EXCEPT ![s] = "unregistered"]
    /\ UNCHANGED <<clients, clientMux, followers, connVars, loopVars, histVars,
                   fault, line>>

\* ---- readSource ---------------------------------------------------------
\* Mutant of Cached: only a record ahead of current is held back.
CachedOnlyAhead(m, cur) == Id(m) > cur

\* Mutant of Cached: a record ahead of current is dispatched at once.
CachedOnlyBehind(m, cur) == Id(m) < cur

\* msg.Id() != current: the record goes to the cache.
Cached(m, cur) == Id(m) # cur

\* Mutant of CacheStore: the record is dropped.
CacheStoreDrop(cch, m) == cch

\* Mutant of CacheStore: a sequence number that is held keeps its first record.
CacheStoreKeepFirst(cch, m) == IF Id(m) \in DOMAIN cch THEN cch ELSE MapPut(cch, Id(m), m)

CacheStore(cch, m) == MapPut(cch, Id(m), m)

\* Mutant of CacheDelete: the dispatched record stays in the cache.
CacheDeleteKeep(cch, cur) == cch

\* delete(cache, current)
CacheDelete(cch, cur) == MapDelete(cch, cur)

\* Dispatch of m is called by the loop of s: the range loop (if any) begins.
BeginDispatch(s, m, g, sn, td, dt) ==
    /\ dmsg' = [dmsg EXCEPT ![s] = m]
    /\ dispatched' = [dispatched EXCEPT ![s] = Append(@, m)]
    /\ regs' = [regs EXCEPT ![s] = {clients}]
    /\ seen' = [sn EXCEPT ![s] = {}]
    /\ todo' = [td EXCEPT ![s] = RangeStart(m, clients, g)]
    /\ detached' = [dt EXCEPT ![s] = RangeNil(m, g)]

\* The end of one turn of the outer loop: err != nil unregisters and returns.
EndTurn(s, err) ==
    /\ source' = IF err # "none" THEN UnregisterEventSource(source, s) ELSE source
    /\ lpc' = [lpc EXCEPT ![s] = IF err # "none" THEN "exit" ELSE "wait"]

RECURSIVE Sum(_, _)
Sum(f, S) == IF S = {} THEN 0
             ELSE LET x == CHOOSE y \in S : TRUE IN Len(f[x]) + Sum(f, S \ {x})

\* The records the feeds have delivered so far, over all sources.
Received == Sum(arrived, Sources)

\* WaitMessage returns (msg, err) to the loop of s, which caches the message,
\* or calls its Dispatch, or finds it nil.
Receive(s, parsed, ioerr) ==
    LET r == WaitMessage(parsed, ioerr) IN
    /\ ~fault
    /\ lpc[s] = "wait"
    /\ Received < MaxFeed
    /\ arrived' = [arrived EXCEPT ![s] = Append(@, r)]
    /\ IF r.msg # Nil /\ ~Cached(r.msg, current[s])
       THEN /\ BeginDispatch(s, r.msg, followers, seen, todo, detached)
            /\ derr' = [derr EXCEPT ![s] = r.err]
            /\ incache' = [incache EXCEPT ![s] = FALSE]
            /\ lpc' = [lpc EXCEPT ![s] = "disp"]
            /\ UNCHANGED <<source, cache>>
       ELSE /\ cache' = [cache EXCEPT ![s] =
                           IF r.msg # Nil THEN CacheStore(@, r.msg) ELSE @]
            /\ EndTurn(s, r.err)
            /\ UNCHANGED <<dmsg, derr, incache, seen, todo, detached, dispatched,
                           regs>>
    /\ UNCHANGED <<clients, clientMux, followers, connVars, rstate, current,
                   raced, written, fault, line>>

\* The connection of s carries the one line the state holds: WaitMessage
\* reads it without I/O error and hands ParseMessage's result to the loop.
ReceiveLine(s) ==
    /\ line # NoLine
    /\ Len(arrived[s]) = 0
    /\ Receive(s, ParseMessage(line).msg, FALSE)

\* Dispatch of dmsg[s] has returned: current++, then the next message of the
\* cache is dispatched, or the turn ends.  g is the follower graph and sn, td,
\* dt the range-loop state that the Dispatch left.
Advance(s, g, sn, td, dt) ==
    LET cch == IF incache[s] THEN CacheDelete(cache[s], current[s]) ELSE cache[s]
        cur == current[s] + 1
        ok  == cur \in DOMAIN cch
    IN  /\ current' = [current EXCEPT ![s] = cur]
        /\ cache' = [cache EXCEPT ![s] = cch]
        /\ IF ok
           THEN /\ BeginDispatch(s, cch[cur], g, sn, td, dt)
                /\ incache' = [incache EXCEPT ![s] = TRUE]
                /\ UNCHANGED <<source, lpc, derr>>
           ELSE /\ dmsg' = [dmsg EXCEPT ![s] = Nil]
                /\ incache' = [incache EXCEPT ![s] = FALSE]
                /\ derr' = [derr EXCEPT ![s] = "none"]
                /\ seen' = [sn EXCEPT ![s] = {}]
                /\ todo' = [td EXCEPT ![s] = {}]
                /\ detached' = [dt EXCEPT ![s] = FALSE]
                /\ EndTurn(s, derr[s])
                /\ regs' = [regs EXCEPT ![s] = {}]
                /\ UNCHANGED dispatched

\* ---- Dispatch -----------------------------------------------------------
\* Follow.Dispatch, called by the loop of s.
DispatchFollow(s) ==
    LET m == dmsg[s]
        g == AddFollower(followers, m.to, m.from)
    IN  /\ ~fault
        /\ Iterating(s, "F")
        /\ followers' = g
        /\ written' = Write(written, GetClient(clients, m.to), s, m)
        /\ Advance(s, g, seen, todo, detached)
        /\ UNCHANGED <<clients, clientMux, connVars, rstate, feedVars, fault, line>>

\* Unfollow.Dispatch.  A range loop of another goroutine over the follower
\* set of m.to no longer has to produce m.from; when the set is pruned from
\* ns.followers that loop is left with the emptied, unlinked set.
DispatchUnfollow(s) ==
    LET m == dmsg[s]
        g == RemoveFollower(followers, m.to, m.from)
        hit(t) == t # s /\ Iterating(t, "S") /\ dmsg[t].from = m.to /\ ~detached[t]
        sn == [t \in Sources |-> IF hit(t) THEN seen[t] \ {m.from} ELSE seen[t]]
        td == [t \in Sources |-> IF hit(t) THEN todo[t] \ {m.from} ELSE todo[t]]
        dt == [t \in Sources |-> IF hit(t) THEN m.to \notin DOMAIN g ELSE detached[t]]
    IN  /\ ~fault
        /\ Iterating(s, "U")
        /\ followers' = g
        /\ Advance(s, g, sn, td, dt)
        /\ UNCHANGED <<clients, clientMux, connVars, rstate, feedVars, written, fault, line>>

\* PrivateMessage.Dispatch.
DispatchPrivateMessage(s) ==
    LET m == dmsg[s] IN
    /\ ~fault
    /\ Iterating(s, "P")
    /\ written' = Write(written, GetClient(clients, m.to), s, m)
    /\ Advance(s, followers, seen, todo, detached)
    /\ UNCHANGED <<clients, clientMux, followers, connVars, rstate, feedVars, fault, line>>

\* One turn of the range loop of NetServer.Broadcast: the key id is produced.
BroadcastVisit(s, id) ==
    /\ ~fault
    /\ Iterating(s, "B")
    /\ id \in (DOMAIN clients) \ seen[s]
    /\ written' = Write(written, clients[id], s, dmsg[s])
    /\ seen' = [seen EXCEPT ![s] = @ \cup {id}]
    /\ todo' = [todo EXCEPT ![s] = @ \ {id}]
    /\ UNCHANGED <<serverVars, connVars, rstate, lpc, current, cache, dmsg, derr,
                   incache, detached, visitVars, dispatched, fault, line>>

\* The range loop of Broadcast ends (keys created meanwhile may be skipped).
BroadcastReturn(s) ==
    /\ ~fault
    /\ Iterating(s, "B")
    /\ todo[s] = {}
    /\ Advance(s, followers, seen, todo, detached)
    /\ UNCHANGED <<clients, clientMux, followers, connVars, rstate, feedVars,
                   written, fault, line>>

\* One turn of the range loop of StatusUpdate.Dispatch: follower uid is
\* produced and written to if GetClient finds it.
StatusUpdateVisit(s, uid) ==
    /\ ~fault
    /\ Iterating(s, "S")
    /\ ~detached[s]
    /\ uid \in GetFollowers(followers, dmsg[s].from) \ seen[s]
    /\ written' = Write(written, GetClient(clients, uid), s, dmsg[s])
    /\ seen' = [seen EXCEPT ![s] = @ \cup {uid}]
    /\ todo' = [todo EXCEPT ![s] = @ \ {uid}]
    /\ UNCHANGED <<serverVars, connVars, rstate, lpc, current, cache, dmsg, derr,
                   incache, detached, visitVars, dispatched, fault, line>>

StatusUpdateReturn(s) ==
    /\ ~fault
    /\ Iterating(s, "S")
    /\ todo[s] = {} \/ detached[s]
    /\ Advance(s, followers, seen, todo, detached)
    /\ UNCHANGED <<clients, clientMux, followers, connVars, rstate, feedVars,
                   written, fault, line>>

\* ---- concurrent map access ----------------------------------------------
\* The ids Init can leave in NetClient.userid: a parsed id, or -1.
HandshakeIds == Users \cup {UserIdInvalid}

\* A write of ns.clients while Broadcast ranges over it without the mutex.
RegistryRace ==
    /\ \E s \in Sources : Iterating(s, "B")
    /\ ~clientMux
    /\ \/ \E c \in Conns : cstate[c] = "new" /\ HandshakeIds \ DOMAIN clients # {}
       \/ \E c \in Conns : cstate[c] \in {"true", "false"} /\ DOMAIN clients # {}

\* A write of a follower set while another loop's StatusUpdate ranges over it.
FollowersRace ==
    \E s, t \in Sources :
        /\ s # t
        /\ Iterating(s, "S") /\ ~detached[s]
        /\ lpc[t] = "disp" /\ dmsg[t].kind \in {"F", "U"}
        /\ dmsg[t].to = dmsg[s].from

\* The Go runtime detects the unsynchronised map access and aborts the process.
ConcurrentMapFault ==
    /\ ~fault
    /\ RegistryRace \/ FollowersRace
    /\ fault' = TRUE
    /\ UNCHANGED <<serverVars, connVars, rstate, loopVars, histVars, line>>

\* ---- specifications -----------------------------------------------------
\* The client connections Cs are accepted; their handshake yields an id of Ids.
ClientSteps(Cs, Ids) ==
    \/ \E c \in Cs, id \in Ids : RegisterClient(c, id)
    \/ \E c \in Cs : UnregisterClient(c)

\* The source connections Srcs are accepted; their feeds carry the records
\* of Feed (Nil: a line ParseMessage rejects) and fail with an I/O error when
\* a value of Errs is TRUE.
SourceSteps(Srcs, Feed, Errs) ==
    \/ \E s \in Srcs : RegisterEventSourceCheck(s)
    \/ \E s \in Srcs : RegisterEventSourceStore(s)
    \/ \E s \in Srcs, parsed \in Feed, ioerr \in Errs : Receive(s, parsed, ioerr)

BroadcastSteps ==
    \/ \E s \in Sources, id \in HandshakeIds : BroadcastVisit(s, id)
    \/ \E s \in Sources : BroadcastReturn(s)

StatusUpdateSteps ==
    \/ \E s \in Sources, uid \in Users : StatusUpdateVisit(s, uid)
    \/ \E s \in Sources : StatusUpdateReturn(s)

GraphSteps ==
    \/ \E s \in Sources : DispatchFollow(s)
    \/ \E s \in Sources : DispatchUnfollow(s)

Dispatch ==
    \/ GraphSteps
    \/ \E s \in Sources : DispatchPrivateMessage(s)
    \/ BroadcastSteps
    \/ StatusUpdateSteps

\* The records about user 1 and its follower f, with sequence numbers in S.
About(S, f) ==
    {NewBroadcast(s) : s \in S} \cup {NewStatusUpdate(s, 1) : s \in S}
        \cup {NewFollow(s, f, 1) : s \in S} \cup {NewUnfollow(s, f, 1) : s \in S}
        \cup {NewPrivateMessage(s, f, 1) : s \in S}

\* Every source connection and one client connection; the feeds carry
\* Broadcasts and can fail, so that a source can follow another.
Next ==
    \/ ClientSteps({1}, Users)
    \/ SourceSteps(Sources, Broadcasts(SeqIds), BOOLEAN)
    \/ BroadcastSteps
    \/ ConcurrentMapFault

Spec == Init /\ [][Next]_vars

\* One source whose feed carries records of every kind in any order, with
\* repeated and stale sequence numbers, lines that do not parse and I/O
\* errors; one client connection.
NextSeq ==
    \/ ClientSteps({1}, Users)
    \/ SourceSteps({1}, About(SeqIds, 2) \cup {Nil}, BOOLEAN)
    \/ Dispatch
    \/ ConcurrentMapFault

SpecSeq == Init /\ [][NextSeq]_vars

\* One source whose feed carries the records that change and read the
\* follower set of user 1; every client connection.
FeedGraph ==
    {NewFollow(s, f, 1) : s \in SeqIds, f \in Users}
        \cup {NewUnfollow(s, f, 1) : s \in SeqIds, f \in Users}
        \cup {NewStatusUpdate(s, 1) : s \in SeqIds}

NextGraph ==
    \/ ClientSteps(Conns, Users)
    \/ SourceSteps({1}, FeedGraph, {FALSE})
    \/ GraphSteps
    \/ StatusUpdateSteps

SpecGraph == Init /\ [][NextGraph]_vars

\* One source whose feed carries Broadcasts and PrivateMessages to user 1;
\* every client connection.
FeedFanout ==
    Broadcasts(SeqIds) \cup {NewPrivateMessage(s, 2, 1) : s \in SeqIds}

NextFanout ==
    \/ ClientSteps(Conns, Users)
    \/ SourceSteps({1}, FeedFanout, {FALSE})
    \/ \E s \in Sources : DispatchPrivateMessage(s)
    \/ BroadcastSteps
    \/ ConcurrentMapFault

SpecFanout == Init /\ [][NextFanout]_vars

\* Every source connection, whose feeds carry Broadcasts and lines that do
\* not parse and can fail; UnregisterEventSource is also called from outside
\* the loops; one client connection.
NextSession ==
    \/ ClientSteps({1}, {1})
    \/ SourceSteps(Sources, Broadcasts(SeqIds) \cup {Nil}, BOOLEAN)
    \/ \E s \in Sources : UnregisterEventSourceCall(s)
    \/ BroadcastSteps
    \/ ConcurrentMapFault

SpecSession == Init /\ [][NextSession]_vars

\* One source whose feed carries Follow and Unfollow records between any
\* two users; no client connection.
NextEdges ==
    \/ SourceSteps({1}, Follows(SeqIds) \cup Unfollows(SeqIds), {FALSE})
    \/ GraphSteps

SpecEdges == Init /\ [][NextEdges]_vars

\* One source whose feed carries Broadcasts; every client connection, whose
\* handshake yields a user id or fails.
NextHandshake ==
    \/ ClientSteps(Conns, HandshakeIds)
    \/ SourceSteps({1}, Broadcasts(SeqIds), {FALSE})
    \/ BroadcastSteps
    \/ ConcurrentMapFault

SpecHandshake == Init /\ [][NextHandshake]_vars

\* One source whose connection carries one line of text, any sequence of up
\* to MaxFields fields; no client connection.
InitDecode == Started /\ line \in Lines

NextDecode ==
    \/ RegisterEventSourceCheck(1)
    \/ RegisterEventSourceStore(1)
    \/ ReceiveLine(1)
    \/ GraphSteps
    \/ \E s \in Sources : DispatchPrivateMessage(s)
    \/ \E s \in Sources : BroadcastReturn(s)
    \/ \E s \in Sources : StatusUpdateReturn(s)

SpecDecode == InitDecode /\ [][NextDecode]_vars

\* ---- claims -------------------------------------------------------------
Last(q) == q[Len(q)]

\* The sequence numbers among the results WaitMessage returned to s.
ArrivedIds(s) == {Id(arrived[s][i].msg) : i \in {j \in 1..Len(arrived[s]) : arrived[s][j].msg # Nil}}

\* C1: within one session the sequence numbers dispatched so far are exactly
\* 1, 2, ..., k in this order, and while a sequence number j has not arrived
\* nothing with a sequence number of j or more has been dispatched.
C1_DispatchedInOrder ==
    \A s \in Sources :
        /\ \A i \in 1..Len(dispatched[s]) : Id(dispatched[s][i]) = FirstSeq + i - 1
        /\ \A j \in SeqIds :
              j \notin ArrivedIds(s) =>
                  \A i \in 1..Len(dispatched[s]) : Id(dispatched[s][i]) < j

\* C1 witness: a record that arrived ahead of its turn is dispatched from the
\* cache after the records before it.
C1_Witness ==
    \E s \in Sources : incache[s] /\ Len(dispatched[s]) >= 2 /\ Len(arrived[s]) >= 2

\* The results WaitMessage returned to s are N records with the sequence
\* numbers 1..N, each once.
PermutationArrived(s) ==
    /\ Len(arrived[s]) > 0
    /\ \A i \in 1..Len(arrived[s]) : arrived[s][i].msg # Nil
    /\ ArrivedIds(s) = 1..Len(arrived[s])

\* C2: once the loop has processed a permutation of N records numbered 1..N,
\* each of them has been dispatched exactly once, current is N+1 and the
\* cache is empty.
C2_PermutationDrained ==
    \A s \in Sources :
        (lpc[s] \in {"wait", "exit"} /\ PermutationArrived(s)) =>
            /\ Len(dispatched[s]) = Len(arrived[s])
            /\ \A i \in 1..Len(dispatched[s]) : Id(dispatched[s][i]) = i
            /\ {dispatched[s][i] : i \in 1..Len(dispatched[s])}
                   = {arrived[s][i].msg : i \in 1..Len(arrived[s])}
            /\ current[s] = Len(arrived[s]) + 1
            /\ DOMAIN cache[s] = {}

\* C2 witness: a permutation of MaxFeed records that did not arrive in order
\* has been processed.
C2_Witness ==
    \E s \in Sources :
        /\ lpc[s] = "wait"
        /\ PermutationArrived(s)
        /\ Len(arrived[s]) = MaxFeed
        /\ Id(arrived[s][1].msg) # 1

\* WaitMessage has just returned a record with a sequence number below current.
StaleArrives(s) ==
    /\ Len(arrived'[s]) = Len(arrived[s]) + 1
    /\ Last(arrived'[s]).msg # Nil
    /\ Id(Last(arrived'[s]).msg) < current[s]

\* C4: a record with a sequence number below current is not dispatched: the
\* step that takes it calls no Dispatch, writes to no sink, leaves the
\* follower graph and current as they are, and the loop goes on unless that
\* WaitMessage call also returned an error; and no later step dispatches a
\* message with a sequence number below current.
C4_StaleNeverDispatched ==
    [][\A s \in Sources :
          /\ StaleArrives(s) =>
                /\ dispatched' = dispatched
                /\ written' = written
                /\ followers' = followers
                /\ current' = current
                /\ Last(arrived'[s]).err = "none" => lpc'[s] = "wait"
          /\ dispatched'[s] # dispatched[s] =>
                Id(Last(dispatched'[s])) >= current[s]]_vars

\* C4 witness: a record below current has been taken (the code keeps it in
\* the cache) and the loop waits for the next record.
C4_Witness ==
    \E s \in Sources :
        /\ lpc[s] = "wait"
        /\ \E k \in DOMAIN cache[s] : k < current[s]
        /\ Len(dispatched[s]) >= 2

\* C5 as claimed: whenever the loop is between two records, every key of the
\* cache is greater than current.
C5_CacheAheadOfCurrent ==
    \A s \in Sources :
        lpc[s] \in {"wait", "exit"} => \A k \in DOMAIN cache[s] : k > current[s]

\* Connection c is the sink the registry holds for its user id.
Registered(c) == userid[c] \in DOMAIN clients /\ clients[userid[c]] = c

\* The positions of written[c] at which the loop of s wrote.
WrittenBy(c, s) == {i \in 1..Len(written[c]) : written[c][i].src = s}

\* C3 as claimed: the sequence numbers written to a registered client are
\* strictly increasing.  Stated for the runs in which no two
\* RegisterEventSource calls passed the test of ns.source together, so that
\* what refutes it is a later session and not that unprotected test.
C3_SinkIdsIncreasing ==
    ~raced =>
        \A c \in Conns :
            Registered(c) =>
                \A i, j \in 1..Len(written[c]) :
                    i < j => Id(written[c][i].msg) < Id(written[c][j].msg)

\* C3 amended: the sequence numbers that one session writes to a client are
\* strictly increasing, and each was dispatched by that session before.
C3_SessionIdsIncreasing ==
    \A c \in Conns, s \in Sources :
        /\ \A i, j \in WrittenBy(c, s) :
              i < j => Id(written[c][i].msg) < Id(written[c][j].msg)
        /\ \A i \in WrittenBy(c, s) :
              \E k \in 1..Len(dispatched[s]) : dispatched[s][k] = written[c][i].msg

\* C3 witness: a session whose first record was not number 1 has written two
\* messages to a client that is still registered.
C3_Witness ==
    \E c \in Conns, s \in Sources :
        /\ Registered(c)
        /\ Cardinality(WrittenBy(c, s)) >= 2
        /\ Id(arrived[s][1].msg) # 1

\* The readSource loops that are running.
Draining == {s \in Sources : lpc[s] \in {"wait", "disp"}}

\* C6 as claimed: at most one readSource loop is running, and at most one
\* RegisterEventSource call has returned true for a loop that still runs.
C6_SingleDrainLoop ==
    /\ Cardinality(Draining) <= 1
    /\ Cardinality({s \in Draining : rstate[s] = "true"}) <= 1

\* RegisterClient of c has just returned.
RegisterClientReturns(c) == cstate[c] = "new" /\ cstate'[c] # "new"

\* C7: RegisterClient for an id that is registered returns false and leaves
\* the registry as it is, so that GetClient still yields the first sink;
\* for an absent id it stores the sink and returns true.  A sink whose
\* registration was rejected is never in the registry.
C7_OneSinkPerId ==
    [][/\ \A c \in Conns :
              RegisterClientReturns(c) =>
                  LET id == userid'[c] IN
                  IF id \in DOMAIN clients
                  THEN /\ cstate'[c] = "false"
                       /\ clients' = clients
                       /\ GetClient(clients', id) = clients[id]
                       /\ GetClient(clients', id) # c
                  ELSE /\ cstate'[c] = "true"
                       /\ DOMAIN clients' = (DOMAIN clients) \cup {id}
                       /\ GetClient(clients', id) = c
                       /\ \A k \in DOMAIN clients : clients'[k] = clients[k]
       /\ \A c \in Conns : cstate[c] = "false" => ~Registered(c)]_vars

\* C7 witness: a second sink was rejected for an id whose first sink is
\* still the registered one.
C7_Witness ==
    \E c, d \in Conns :
        /\ c # d
        /\ cstate[d] = "false"
        /\ userid[d] = userid[c]
        /\ Registered(c)

\* The sinks to which the loop of s has written m, and how often.
Receivers(s, m) ==
    {c \in Conns : \E i \in 1..Len(written[c]) : written[c][i] = [src |-> s, msg |-> m]}

TimesWritten(c, s, m) ==
    Cardinality({i \in 1..Len(written[c]) : written[c][i] = [src |-> s, msg |-> m]})

Sinks(reg) == {reg[k] : k \in DOMAIN reg}

\* The Dispatch of a message of kind k that the loop of s runs returns.
DispatchReturns(s, k) == Iterating(s, k) /\ current'[s] # current[s]

\* C9 as claimed: when the Dispatch of a Broadcast returns, the sinks it has
\* written to, once each, are the clients that were registered at one
\* moment of that Dispatch; the follower graph and the registry are as they
\* were.
C9_BroadcastToRegistered ==
    [][\A s \in Sources :
          DispatchReturns(s, "B") =>
              /\ \E reg \in regs[s] : Receivers(s, dmsg[s]) = Sinks(reg)
              /\ \A c \in Receivers(s, dmsg[s]) : TimesWritten(c, s, dmsg[s]) = 1
              /\ followers' = followers
              /\ clients' = clients]_vars

\* The followers that the Follow and Unfollow records dispatched by s before
\* position k have left to user uid.
FollowersBefore(s, k, uid) ==
    {u \in Users :
        \E i \in 1..(k - 1) :
            /\ dispatched[s][i].kind = "F"
            /\ dispatched[s][i].from = u /\ dispatched[s][i].to = uid
            /\ \A j \in (i + 1)..(k - 1) :
                  ~(/\ dispatched[s][j].kind = "U"
                    /\ dispatched[s][j].from = u /\ dispatched[s][j].to = uid)}

\* C8 as claimed: when the Dispatch of a StatusUpdate returns, the sinks it
\* has written to are those of the followers, by the Follow and Unfollow
\* records with smaller sequence numbers, that were registered at one moment
\* of that Dispatch.
C8_StatusUpdateToFollowers ==
    [][\A s \in Sources :
          DispatchReturns(s, "S") =>
              LET m == dmsg[s]
                  G == FollowersBefore(s, Len(dispatched[s]), m.from)
              IN  \E reg \in regs[s] :
                      Receivers(s, m) = {reg[u] : u \in G \cap DOMAIN reg}]_vars

\* C10: the Dispatch of Follow(from, to) makes from a follower of to, changes
\* no other follower set, and writes the message once to the sink registered
\* for to at that moment, if there is one, and to no other sink.
C10_FollowDispatch ==
    [][\A s \in Sources :
          DispatchReturns(s, "F") =>
              LET m == dmsg[s] IN
              /\ GetFollowers(followers', m.to) = GetFollowers(followers, m.to) \cup {m.from}
              /\ \A u \in Users \ {m.to} :
                    GetFollowers(followers', u) = GetFollowers(followers, u)
              /\ \A c \in Conns :
                    written'[c] =
                        IF m.to \in DOMAIN clients /\ clients[m.to] = c
                        THEN Append(written[c], [src |-> s, msg |-> m])
                        ELSE written[c]
              /\ clients' = clients]_vars

\* C10 witness: a Follow was dispatched while its target was not registered
\* (the edge exists, nothing was written), and the follower is registered.
C10_Witness ==
    \E s \in Sources : \E i \in 1..Len(dispatched[s]) :
        LET m == dispatched[s][i] IN
        /\ i < Len(dispatched[s]) \/ lpc[s] = "wait"
        /\ m.kind = "F" /\ m.from # m.to
        /\ m.from \in GetFollowers(followers, m.to)
        /\ m.from \in DOMAIN clients
        /\ \A c \in Conns : written[c] = <<>>

\* Position i of dispatched[s] is a Dispatch that has returned.
Returned(s, i) == i < Len(dispatched[s]) \/ (i = Len(dispatched[s]) /\ lpc[s] # "disp")

\* C11: the Dispatch of Unfollow(from, to) takes from out of the followers of
\* to, leaves every other follower set as it is, writes to no sink and does
\* not touch the registry, whoever is registered.
C11_UnfollowDispatch ==
    [][\A s \in Sources :
          DispatchReturns(s, "U") =>
              LET m == dmsg[s] IN
              /\ GetFollowers(followers', m.to) = GetFollowers(followers, m.to) \ {m.from}
              /\ \A u \in Users \ {m.to} :
                    GetFollowers(followers', u) = GetFollowers(followers, u)
              /\ \A u \in Users :
                    GetFollowers(followers', u) \ {m.from} = GetFollowers(followers, u) \ {m.from}
              /\ written' = written
              /\ clients' = clients]_vars

\* C11 witness: an Unfollow has removed an edge that a Follow had made, while
\* both users were registered, and another follower of the same user stays.
C11_Witness ==
    \E s \in Sources : \E i, j \in 1..Len(dispatched[s]) :
        LET m == dispatched[s][j] IN
        /\ i < j /\ Returned(s, j)
        /\ m.kind = "U" /\ m.from # m.to
        /\ dispatched[s][i] = NewFollow(Id(dispatched[s][i]), m.from, m.to)
        /\ m.from \notin GetFollowers(followers, m.to)
        /\ m.to \in GetFollowers(followers, m.to)
        /\ {m.from, m.to} \subseteq DOMAIN clients

\* C12: the Dispatch of a PrivateMessage whose target is not registered
\* writes to no sink, and the loop goes on: current passes the record's
\* sequence number and the loop does not end.
C12_PrivateMessageUnregistered ==
    [][\A s \in Sources :
          (DispatchReturns(s, "P") /\ dmsg[s].to \notin DOMAIN clients) =>
              /\ written' = written
              /\ current'[s] = Id(dmsg[s]) + 1
              /\ derr[s] = "none" => lpc'[s] \in {"wait", "disp"}
              /\ clients' = clients /\ followers' = followers]_vars

\* C12 witness: a PrivateMessage was dispatched with nothing written, the
\* record after it was dispatched too, and another client was registered
\* when the PrivateMessage was dispatched.
C12_Witness ==
    \E s \in Sources :
        /\ Len(dispatched[s]) >= 2
        /\ dispatched[s][1].kind = "P"
        /\ dispatched[s][2].kind = "B"
        /\ \E c \in Conns : userid[c] # dispatched[s][1].to /\ Len(written[c]) > 0
        /\ \A c \in Conns : \A i \in 1..Len(written[c]) : written[c][i].msg.kind # "P"

\* WaitMessage has just returned no message and a decode error to the loop of s.
MalformedArrives(s) ==
    /\ Len(arrived'[s]) = Len(arrived[s]) + 1
    /\ Last(arrived'[s]) = [msg |-> Nil, err |-> "decode"]

\* C13 as claimed: a line that does not parse, read without an I/O error,
\* enters neither the cache nor a Dispatch, the loop waits for the next
\* record and the source stays registered.
C13_MalformedKeepsLoop ==
    [][\A s \in Sources :
          MalformedArrives(s) =>
              /\ cache' = cache /\ dispatched' = dispatched /\ current' = current
              /\ lpc'[s] = "wait"
              /\ source' = source]_vars

\* The loop of s has taken care of message m: m went through Dispatch or is
\* held in the cache.
Processed(s, m) ==
    \/ \E i \in 1..Len(dispatched'[s]) : dispatched'[s][i] = m
    \/ Id(m) \in DOMAIN cache'[s] /\ cache'[s][Id(m)] = m

\* C14: when WaitMessage returns an I/O error the loop still handles the
\* message that came with it, then leaves the turn by unregistering its
\* source and returning: ns.source no longer is this source (and is nil if it
\* was this source), and the loop that has returned takes nothing more from
\* WaitMessage and dispatches nothing more.
C14_IoErrorEndsSession ==
    [][\A s \in Sources :
          /\ lpc[s] = "exit" =>
                /\ lpc'[s] = "exit"
                /\ arrived'[s] = arrived[s]
                /\ dispatched'[s] = dispatched[s]
          /\ (lpc[s] = "wait" /\ Len(arrived[s]) > 0) => Last(arrived[s]).err = "none"
          /\ (lpc[s] = "wait" /\ arrived'[s] # arrived[s] /\ Last(arrived'[s]).err = "io") =>
                \/ lpc'[s] = "exit"
                \/ lpc'[s] = "disp" /\ derr'[s] = "io" /\ dmsg'[s] = Last(arrived'[s]).msg
          /\ (lpc[s] = "disp" /\ derr[s] = "io" /\ lpc'[s] # "disp") => lpc'[s] = "exit"
          /\ (lpc[s] # "exit" /\ lpc'[s] = "exit") =>
                LET r == Last(arrived'[s]) IN
                /\ r.err # "none"
                /\ r.msg # Nil => Processed(s, r.msg)
                /\ source' # s
                /\ source = s => source' = NoSource]_vars

\* C14 witness: a loop whose last WaitMessage call returned a message and an
\* I/O error has dispatched that message and returned, and a source that was
\* registered afterwards is being read.
C14_Witness ==
    \E s, t \in Sources :
        /\ s # t /\ ~raced
        /\ lpc[s] = "exit" /\ rstate[s] = "true"
        /\ Len(dispatched[s]) > 0
        /\ Last(arrived[s]) = [msg |-> Last(dispatched[s]), err |-> "io"]
        /\ rstate[t] = "true" /\ source = t /\ lpc[t] = "wait"

\* C15 as claimed: once UnregisterEventSource(es) has returned true the loop
\* that reads es dispatches nothing more, and no loop of another source runs
\* beside it.
C15_UnregisterStopsLoop ==
    [][\A s \in Sources :
          rstate[s] = "unregistered" =>
              /\ dispatched'[s] = dispatched[s]
              /\ lpc[s] \in {"wait", "disp"} =>
                    \A t \in Sources \ {s} : lpc[t] \notin {"wait", "disp"}]_vars

\* The Dispatch that the loop of s runs reads the registry: a Broadcast
\* ranges over it, the other kinds but Unfollow look clients up in it.
ReadsRegistry(s) == lpc[s] = "disp" /\ dmsg[s].kind \in {"B", "S", "F", "P"}

\* C16 as claimed: the registry reads of a Dispatch are made under clientMux,
\* so clientMux is held while such a Dispatch runs, and RegisterClient and
\* UnregisterClient do not change the registry while the fan-out of a
\* Broadcast is under way.
C16_RegistryReadsAtomic ==
    [][/\ (\E s \in Sources : Iterating(s, "B")) => clients' = clients
       /\ (\E s \in Sources : ReadsRegistry(s)) => clientMux]_vars

\* C17: no user id is a key of the follower graph with an empty follower
\* set, and GetFollowers yields the empty set exactly for the users that are
\* no key.
C17_NoEmptyFollowerSet ==
    /\ \A k \in DOMAIN followers : followers[k] # {}
    /\ \A u \in Users : (GetFollowers(followers, u) = {}) <=> (u \notin DOMAIN followers)

\* C17 witness: the Unfollow of a user's last follower has returned and the
\* user is no key any more, while another user still has followers.
C17_Witness ==
    \E s \in Sources : \E i, j \in 1..Len(dispatched[s]) :
        LET m == dispatched[s][j] IN
        /\ i < j /\ Returned(s, j)
        /\ m.kind = "U"
        /\ dispatched[s][i] = NewFollow(Id(dispatched[s][i]), m.from, m.to)
        /\ m.to \notin DOMAIN followers
        /\ DOMAIN followers # {}

\* C18: on every graph the loop can build, AddFollower twice is AddFollower
\* once, AddFollower of an edge that is there and RemoveFollower of an edge
\* that is not there (the followee being a key or not) give the same graph.
C18_FollowerOpsIdempotent ==
    \A cid, uid \in Users :
        LET g == followers IN
        /\ AddFollower(AddFollower(g, cid, uid), cid, uid) = AddFollower(g, cid, uid)
        /\ uid \in GetFollowers(g, cid) => AddFollower(g, cid, uid) = g
        /\ uid \notin GetFollowers(g, cid) => RemoveFollower(g, cid, uid) = g
        /\ RemoveFollower(RemoveFollower(g, cid, uid), cid, uid) = RemoveFollower(g, cid, uid)

\* C18 witness: the same Follow was dispatched twice, then the Unfollow of an
\* edge to a user that is no key, and the graph is what the first Follow made.
C18_Witness ==
    \E s \in Sources :
        /\ Len(dispatched[s]) = 3 /\ lpc[s] = "wait"
        /\ dispatched[s][1].kind = "F"
        /\ dispatched[s][2] = NewFollow(2, dispatched[s][1].from, dispatched[s][1].to)
        /\ dispatched[s][3].kind = "U"
        /\ dispatched[s][3].to \notin DOMAIN followers
        /\ followers = AddFollower(EmptyMap, dispatched[s][1].to, dispatched[s][1].from)

\* The sequence numbers that the loop of s has written to connection c.
WrittenIds(c, s) == {Id(written[c][i].msg) : i \in WrittenBy(c, s)}

\* C19: a message is written to a sink only while its Dispatch runs, and
\* only to a client that is registered at that moment: a step that writes to
\* connection c appends the message being dispatched by some loop, c is in
\* the registry, and that loop has not written this sequence number to c
\* before.  So a client registered after a record's Dispatch has returned
\* never receives that record in that session.
C19_NoRedelivery ==
    [][\A c \in Conns :
          written'[c] # written[c] =>
              \E s \in Sources :
                  /\ lpc[s] = "disp"
                  /\ dmsg[s] = Last(dispatched[s])
                  /\ written'[c] = Append(written[c], [src |-> s, msg |-> dmsg[s]])
                  /\ Registered(c)
                  /\ Id(dmsg[s]) \notin WrittenIds(c, s)]_vars

\* C19 witness: a client that is registered has missed the PrivateMessage
\* sent to it as the first record of the session, which was dispatched
\* before it registered, and has received the Broadcast after it.
C19_Witness ==
    \E s \in Sources, c \in Conns :
        /\ Len(dispatched[s]) >= 2 /\ lpc[s] = "wait"
        /\ dispatched[s][1].kind = "P" /\ dispatched[s][1].to = userid[c]
        /\ dispatched[s][2].kind = "B"
        /\ Registered(c)
        /\ written[c] = <<[src |-> s, msg |-> dispatched[s][2]]>>

\* UnregisterClient of c has just returned.
UnregisterClientReturns(c) == cstate[c] # "unregistered" /\ cstate'[c] = "unregistered"

\* C20: UnregisterClient(c) leaves no entry for c's id in the registry,
\* keeps the other entries and writes nothing; nothing is written to c once
\* it has returned; and deleting an id that is not registered leaves the
\* registry as it is.
C20_UnregisterClient ==
    [][/\ \A c \in Conns :
             /\ UnregisterClientReturns(c) =>
                   /\ userid[c] \notin DOMAIN clients'
                   /\ DOMAIN clients' = (DOMAIN clients) \ {userid[c]}
                   /\ \A k \in DOMAIN clients' : clients'[k] = clients[k]
                   /\ written' = written
             /\ cstate[c] = "unregistered" =>
                   /\ written'[c] = written[c]
                   /\ ~Registered(c)
       /\ \A id \in HandshakeIds \ DOMAIN clients :
             UnregisterClientDelete(clients, id) = clients]_vars

\* C20 witness: a client that had received a Broadcast was unregistered, and
\* the next Broadcast went to another client and not to it.
C20_Witness ==
    \E s \in Sources, c, d \in Conns :
        /\ c # d
        /\ cstate[c] = "unregistered"
        /\ Len(dispatched[s]) >= 2 /\ lpc[s] = "wait"
        /\ written[c] = <<[src |-> s, msg |-> dispatched[s][1]]>>
        /\ \E i \in 1..Len(written[d]) : written[d][i].msg = dispatched[s][2]

\* C21 as claimed: the registry has no entry for the invalid id, no
\* connection whose Init left the invalid id is in the registry, and nothing
\* is written to such a connection.
C21_FailedHandshakeNotRegistered ==
    /\ UserIdInvalid \notin DOMAIN clients
    /\ \A c \in Conns :
          (cstate[c] # "new" /\ userid[c] = UserIdInvalid) =>
              /\ ~Registered(c)
              /\ written[c] = <<>>

\* C23 as claimed: once a RegisterClient call has returned, true or false,
\* or an UnregisterClient call has returned, clientMux is free, so that the
\* calls after it are not blocked.
C23_LockReleased ==
    \A c \in Conns : cstate[c] \in {"true", "false", "unregistered"} => ~clientMux

\* The Dispatch of a message that the loop of s took from its cache returns.
CachedDispatchReturns(s) ==
    lpc[s] = "disp" /\ incache[s] /\ current'[s] # current[s]

\* C24: when the loop waits for the next record the cache has no entry at
\* current; a record dispatched from the cache is deleted from it when its
\* Dispatch has returned; and the cache gets a new key only from a record
\* that WaitMessage has just returned.
C24_DrainComplete ==
    [][\A s \in Sources :
          /\ lpc'[s] = "wait" => current'[s] \notin DOMAIN cache'[s]
          /\ CachedDispatchReturns(s) =>
                /\ current[s] \notin DOMAIN cache'[s]
                /\ \A k \in DOMAIN cache'[s] : k \in DOMAIN cache[s] /\ cache'[s][k] = cache[s][k]
          /\ ~(DOMAIN cache'[s] \subseteq DOMAIN cache[s]) => arrived'[s] # arrived[s]]_vars

\* C24 witness: two records were dispatched from the cache in a row after the
\* record before them arrived, the cache is empty and the loop waits.
C24_Witness ==
    \E s \in Sources :
        /\ lpc[s] = "wait"
        /\ Len(arrived[s]) = 3 /\ Len(dispatched[s]) = 3
        /\ Id(arrived[s][3].msg) = FirstSeq
        /\ cache[s] = EmptyMap

\* WaitMessage has just returned a record with a sequence number above current.
FutureArrives(s) ==
    /\ Len(arrived'[s]) = Len(arrived[s]) + 1
    /\ Last(arrived'[s]).msg # Nil
    /\ Id(Last(arrived'[s]).msg) > current[s]

\* The record with sequence number k that WaitMessage returned last to s.
LastArrived(s, k) ==
    LET I == {i \in 1..Len(arrived'[s]) :
                 arrived'[s][i].msg # Nil /\ Id(arrived'[s][i].msg) = k}
        n == CHOOSE i \in I : \A j \in I : j <= i
    IN  arrived'[s][n].msg

\* C25: a record with a sequence number above current is only stored in the
\* cache under its sequence number, replacing what was there: nothing is
\* dispatched or written, and current, the follower graph and the registry
\* are as before.  What is dispatched from the cache for a sequence number is
\* the record that arrived last with it.
C25_FutureRecordCached ==
    [][\A s \in Sources :
          /\ FutureArrives(s) =>
                LET m == Last(arrived'[s]).msg IN
                /\ DOMAIN cache'[s] = DOMAIN cache[s] \cup {Id(m)}
                /\ cache'[s][Id(m)] = m
                /\ \A k \in DOMAIN cache[s] \ {Id(m)} : cache'[s][k] = cache[s][k]
                /\ dispatched' = dispatched /\ written' = written
                /\ current' = current /\ followers' = followers /\ clients' = clients
          /\ (incache'[s] /\ dispatched'[s] # dispatched[s]) =>
                Last(dispatched'[s]) = LastArrived(s, Id(Last(dispatched'[s])))]_vars

\* C25 witness: two different records arrived with sequence number 2 before
\* record 1, and the second of them is what was dispatched for 2.
C25_Witness ==
    \E s \in Sources :
        /\ Len(arrived[s]) = 3
        /\ Id(arrived[s][1].msg) = 2 /\ Id(arrived[s][2].msg) = 2
        /\ arrived[s][1].msg # arrived[s][2].msg
        /\ Len(dispatched[s]) = 2 /\ lpc[s] = "wait"
        /\ dispatched[s][1] = arrived[s][3].msg
        /\ dispatched[s][2] = arrived[s][2].msg

\* Connection c was the sink registered for user u during the whole of the
\* Dispatch that the loop of s is running.
RegisteredThroughout(s, u, c) ==
    \A reg \in regs[s] : u \in DOMAIN reg /\ reg[u] = c

\* C26: a step that changes the registry leaves the follower graph as it is,
\* and so does every return of RegisterClient and UnregisterClient; and when
\* the Dispatch of a StatusUpdate returns, every follower that the Follow and
\* Unfollow records before it have left, and that was registered while it
\* ran, has been written to, whether or not it was registered when the
\* Follow was dispatched.
C26_GraphIndependentOfRegistry ==
    [][/\ clients' # clients => followers' = followers
       /\ \A c \in Conns :
             (RegisterClientReturns(c) \/ UnregisterClientReturns(c)) =>
                 followers' = followers
       /\ \A s \in Sources :
             DispatchReturns(s, "S") =>
                 \A u \in FollowersBefore(s, Len(dispatched[s]), dmsg[s].from), c \in Conns :
                     RegisteredThroughout(s, u, c) => TimesWritten(c, s, dmsg[s]) = 1]_vars

\* C26 witness: user 1 became its own follower by a Follow that was
\* dispatched while no client was registered for it (the Follow was written
\* to nobody); the client that registered as user 1 afterwards has received
\* the StatusUpdate of user 1.
C26_Witness ==
    \E s \in Sources, c \in Conns :
        /\ Len(dispatched[s]) = 2 /\ lpc[s] = "wait"
        /\ dispatched[s][1] = NewFollow(1, 1, 1)
        /\ dispatched[s][2] = NewStatusUpdate(2, 1)
        /\ userid[c] = 1 /\ Registered(c)
        /\ written[c] = <<[src |-> s, msg |-> dispatched[s][2]]>>
        /\ \A d \in Conns \ {c} : written[d] = <<>>


\* ---- C22 ----------------------------------------------------------------
\* The number of arguments the record kinds take: none for Broadcast, one
\* for StatusUpdate, two for Follow, Unfollow and PrivateMessage.
Arity(tag) == CASE tag = "B" -> 0 [] tag = "S" -> 1 [] OTHER -> 2

\* A line no record can be decoded from: fewer than two fields, a sequence
\* number that is not a non-negative integer, an argument that is not an
\* integer, an unknown tag, or a number of arguments other than the tag's.
MalformedLine(l) ==
    \/ Len(l) < 2
    \/ /\ Len(l) >= 2
       /\ \/ ~(IsNumeral(l[1]) /\ Numeral(l[1]) >= 0)
          \/ \E i \in 3..Len(l) : ~IsNumeral(l[i])
          \/ l[2] \notin {"F", "U", "B", "S", "P"}
          \/ Len(l) - 2 # Arity(l[2])

\* The arguments a Message carries.
Payload(m) == CASE m.kind \in {"F", "U", "P"} -> <<m.from, m.to>>
                [] m.kind = "S" -> <<m.from>>
                [] OTHER -> <<>>

\* C22: ParseMessage returns an error and no Message for a line with fewer
\* than two fields, an invalid sequence number or argument, an unknown tag
\* or the wrong number of arguments for its tag; for every other line it
\* returns no error and a Message of the tag's kind that carries exactly
\* the line's sequence number and arguments, and that is what the loop of
\* the source receives.
C22_ParseMessage ==
    line # NoLine =>
        LET r == ParseMessage(line) IN
        /\ IF MalformedLine(line)
           THEN r.err /\ r.msg = Nil
           ELSE /\ ~r.err
                /\ r.msg # Nil
                /\ r.msg.kind = line[2]
                /\ Id(r.msg) = Numeral(line[1])
                /\ Payload(r.msg) = [i \in 1..(Len(line) - 2) |-> Numeral(line[i + 2])]
        /\ \A s \in Sources :
               Len(arrived[s]) > 0 =>
                   arrived[s][1] = [msg |-> r.msg,
                                    err |-> IF r.err THEN "decode" ELSE "none"]

\* A Follow line with a negative argument was decoded and dispatched, and a
\* line with one argument too many would be refused.
C22_Witness ==
    /\ line = <<"1", "F", "-1", "1">>
    /\ \E s \in Sources : dispatched[s] = <<NewFollow(1, 0 - 1, 1)>>
    /\ ParseMessage(<<"1", "F", "-1", "1", "1">>) = Failed

====
